---------------------------- MODULE Spec2Model ----------------------------
(***************************************************************************)
(* Habit tracker (TimV-HSG/HabitTrackerCodingHSG).                         *)
(*                                                                         *)
(* The module models                                                       *)
(*   - the SQLite layer  src/habit_tracker/db.py  (habits and checkins     *)
(*     tables, one short-lived connection per operation),                  *)
(*   - the Habits page   src/pages/1_Habits.py    (session flags edit_id   *)
(*     and confirm_delete, the button handlers),                           *)
(*   - the date logic    src/habit_tracker/metrics.py and the month        *)
(*     aggregation of    src/Habit_Tracker.py.                             *)
(*                                                                         *)
(* Text values (names, notes, custom_days) are sequences of one-character  *)
(* strings so that strip(), split(",") and int() are computed and not      *)
(* assumed.  A date is its day number counted from Monday 2024-01-01; its  *)
(* isoformat() is the triple <<year, month, day>>.                         *)
(***************************************************************************)
EXTENDS Integers, Sequences, FiniteSets, TLC

VARIABLES
    habits,          \* rows of table habits
    habit_seq,       \* sqlite_sequence entry of table habits (AUTOINCREMENT)
    checkins,        \* rows of table checkins
    last,            \* the most recent db call and whether it raised
    edit_id,         \* st.session_state["edit_id"]
    confirm_delete,  \* st.session_state["confirm_delete"]
    toast,           \* the message of the last toast shown by the Habits page
    event,           \* the button pressed in the last run of the Habits page
    arg,             \* inputs of the metric function under evaluation
    pc,              \* which metric function ran / position in current_streak
    cur,             \* current_streak: local cur
    streak,          \* current_streak: local streak
    ret              \* value returned by the metric function

storeVars == <<habits, habit_seq, checkins, last>>
pageVars  == <<edit_id, confirm_delete, toast, event>>
callVars  == <<arg, pc, cur, streak, ret>>
vars      == <<habits, habit_seq, checkins, last, edit_id, confirm_delete,
               toast, event, arg, pc, cur, streak, ret>>

\* edit_id None: "if edit_id" treats None and 0 alike, and no habit has id 0
None == 0

(***************************************************************************)
(* Bounds of the model.                                                    *)
(***************************************************************************)
MaxHabits   == 2   \* habit ids ever issued by AUTOINCREMENT
MaxCheckins == 2   \* rows held by table checkins
MaxLen      == 3   \* length of the enumerated custom_days strings
Window      == 5   \* days before today / after start that carry check-ins
MaxTimeLen  == 5   \* length of the enumerated reminder_time strings

(***************************************************************************)
(* Text: str.strip(), str.split(","), int().                               *)
(***************************************************************************)
IsSpace(c) == c = " "

RECURSIVE LStrip(_)
LStrip(s) ==
    IF s # <<>> /\ IsSpace(Head(s)) THEN LStrip(Tail(s)) ELSE s

RECURSIVE RStrip(_)
RStrip(s) ==
    IF s # <<>> /\ IsSpace(s[Len(s)]) THEN RStrip(SubSeq(s, 1, Len(s) - 1)) ELSE s

Strip(s) == RStrip(LStrip(s))

\* s.split(","): the pieces between commas, empty pieces included
RECURSIVE Split(_)
Split(s) ==
    IF \A i \in 1..Len(s) : s[i] # ","
    THEN <<s>>
    ELSE LET k == CHOOSE i \in 1..Len(s) :
                      s[i] = "," /\ \A j \in 1..(i - 1) : s[j] # ","
         IN  <<SubSeq(s, 1, k - 1)>> \o Split(SubSeq(s, k + 1, Len(s)))

Digits == {"0", "1", "2", "3", "4", "5", "6", "7", "8", "9"}

DigitVal(c) ==
    CASE c = "0" -> 0 [] c = "1" -> 1 [] c = "2" -> 2 [] c = "3" -> 3
      [] c = "4" -> 4 [] c = "5" -> 5 [] c = "6" -> 6 [] c = "7" -> 7
      [] c = "8" -> 8 [] c = "9" -> 9

RECURSIVE Decimal(_)
Decimal(ds) ==
    IF ds = <<>> THEN 0
    ELSE 10 * Decimal(SubSeq(ds, 1, Len(ds) - 1)) + DigitVal(ds[Len(ds)])

\* int(p) of a stripped, non-empty token: an optional sign and at least one
\* digit; anything else raises ValueError (ok = FALSE)
IntParse(p) ==
    LET neg  == p # <<>> /\ Head(p) = "-"
        body == IF neg THEN Tail(p) ELSE p
        good == body # <<>> /\ \A i \in 1..Len(body) : body[i] \in Digits
    IN  IF good
        THEN [ok |-> TRUE, val |-> IF neg THEN 0 - Decimal(body) ELSE Decimal(body)]
        ELSE [ok |-> FALSE, val |-> 0]

(***************************************************************************)
(* Dates: datetime.date over the first months of 2024.                     *)
(***************************************************************************)
MonthLen(m) == CASE m = 1 -> 31 [] m = 2 -> 29 [] m = 3 -> 31 [] m = 4 -> 30

RECURSIVE MonthFirst(_)
MonthFirst(m) == IF m = 1 THEN 0 ELSE MonthFirst(m - 1) + MonthLen(m - 1)

MonthOf(d) == CHOOSE m \in 1..4 : MonthFirst(m) <= d /\ d < MonthFirst(m) + MonthLen(m)

DayOfMonth(d) == d - MonthFirst(MonthOf(d)) + 1

Weekday(d) == d % 7

isoformat(d) == <<2024, MonthOf(d), DayOfMonth(d)>>

\* order of two 'YYYY-MM-DD' texts (ORDER BY day, day >= ?)
IsoLeq(a, b) ==
    \/ a[1] < b[1]
    \/ a[1] = b[1] /\ a[2] < b[2]
    \/ a[1] = b[1] /\ a[2] = b[2] /\ a[3] <= b[3]

(***************************************************************************)
(* db.py: connections and schema.                                          *)
(***************************************************************************)
\* sqlite3.connect: a fresh connection; SQLite starts every connection with
\* foreign-key enforcement off
connect == [foreign_keys |-> FALSE]

\* init_db: creates the tables and ends with PRAGMA foreign_keys = ON on its
\* own connection, which is closed when init_db returns
init_db == [connect EXCEPT !.foreign_keys = TRUE]

\* last: the call, whether a row matched its key (hit) and whether it
\* returned (ok) or raised
NoCall ==
    [op |-> "none", habit_id |-> 0, name |-> <<>>, day |-> <<>>,
     done |-> FALSE, note |-> <<>>, hit |-> FALSE, ok |-> TRUE]

Call(op, hid, name, day, done, note, hit, ok) ==
    [op |-> op, habit_id |-> hid, name |-> name, day |-> day,
     done |-> done, note |-> note, hit |-> hit, ok |-> ok]

\* fetchone(): the matching row, or None.  The result is the set of the
\* matching rows, {} standing for None.
get_habit(habit_id) == {h \in habits : h.id = habit_id}

get_checkin(habit_id, day) ==
    {c \in checkins : c.habit_id = habit_id /\ c.day = day}

RECURSIVE SortByDay(_)
SortByDay(rows) ==
    IF rows = {} THEN <<>>
    ELSE LET r == CHOOSE x \in rows : \A y \in rows : IsoLeq(x.day, y.day)
         IN  <<r>> \o SortByDay(rows \ {r})

\* SELECT day, done, note FROM checkins WHERE habit_id = ? ORDER BY day
list_checkins_for_habit(habit_id) ==
    SortByDay({[day |-> c.day, done |-> c.done, note |-> c.note] :
                   c \in {x \in checkins : x.habit_id = habit_id}})

\* UNIQUE(name): the INSERT or UPDATE raises IntegrityError when another row
\* already holds the name
NameTaken(name, except_id) ==
    \E h \in habits : h.name = name /\ h.id # except_id

\* mutant: the name is stored and compared as typed, without name.strip()
create_habit_unstripped(name, description, schedule_type, custom_days, created_at) ==
    IF NameTaken(name, 0)
    THEN /\ last' = Call("create_habit", 0, name, <<>>, FALSE, <<>>, TRUE, FALSE)
         /\ UNCHANGED <<habits, habit_seq, checkins>>
    ELSE /\ habit_seq < MaxHabits
         /\ habits' = habits \cup
                {[id |-> habit_seq + 1, name |-> name,
                  description |-> Strip(description),
                  schedule_type |-> schedule_type,
                  custom_days |-> Strip(custom_days),
                  created_at |-> created_at]}
         /\ habit_seq' = habit_seq + 1
         /\ last' = Call("create_habit", 0, name, <<>>, FALSE, <<>>, FALSE, TRUE)
         /\ UNCHANGED checkins

\* mutant: id INTEGER PRIMARY KEY without AUTOINCREMENT, a new row takes the
\* largest id in the table plus one
create_habit_rowid(name, description, schedule_type, custom_days, created_at) ==
    LET nm    == Strip(name)
        ids   == {h.id : h \in habits}
        newid == IF ids = {} THEN 1
                 ELSE (CHOOSE m \in ids : \A x \in ids : x <= m) + 1
    IN  IF NameTaken(nm, 0)
        THEN /\ last' = Call("create_habit", 0, name, <<>>, FALSE, <<>>, TRUE, FALSE)
             /\ UNCHANGED <<habits, habit_seq, checkins>>
        ELSE /\ newid <= MaxHabits
             /\ habits' = habits \cup
                    {[id |-> newid, name |-> nm,
                      description |-> Strip(description),
                      schedule_type |-> schedule_type,
                      custom_days |-> Strip(custom_days),
                      created_at |-> created_at]}
             /\ habit_seq' = newid
             /\ last' = Call("create_habit", 0, name, <<>>, FALSE, <<>>, FALSE, TRUE)
             /\ UNCHANGED checkins

create_habit(name, description, schedule_type, custom_days, created_at) ==
    LET conn == connect
        nm   == Strip(name)
    IN  IF NameTaken(nm, 0)
        THEN /\ last' = Call("create_habit", 0, name, <<>>, FALSE, <<>>, TRUE, FALSE)
             /\ UNCHANGED <<habits, habit_seq, checkins>>
        ELSE /\ habit_seq < MaxHabits
             /\ habits' = habits \cup
                    {[id |-> habit_seq + 1, name |-> nm,
                      description |-> Strip(description),
                      schedule_type |-> schedule_type,
                      custom_days |-> Strip(custom_days),
                      created_at |-> created_at]}
             /\ habit_seq' = habit_seq + 1
             /\ last' = Call("create_habit", 0, name, <<>>, FALSE, <<>>, FALSE, TRUE)
             /\ UNCHANGED checkins

update_habit(habit_id, name, description, schedule_type, custom_days) ==
    LET conn == connect
        nm   == Strip(name)
        hit  == \E h \in habits : h.id = habit_id
    IN  IF hit /\ NameTaken(nm, habit_id)
        THEN /\ last' = Call("update_habit", habit_id, name, <<>>, FALSE, <<>>, hit, FALSE)
             /\ UNCHANGED <<habits, habit_seq, checkins>>
        ELSE /\ habits' =
                    {IF h.id = habit_id
                     THEN [h EXCEPT !.name = nm,
                                    !.description = Strip(description),
                                    !.schedule_type = schedule_type,
                                    !.custom_days = Strip(custom_days)]
                     ELSE h : h \in habits}
             /\ last' = Call("update_habit", habit_id, name, <<>>, FALSE, <<>>, hit, TRUE)
             /\ UNCHANGED <<habit_seq, checkins>>

\* DELETE FROM habits WHERE id = ?; ON DELETE CASCADE acts only on a
\* connection that enforces foreign keys
delete_habit(habit_id) ==
    LET conn == connect
        hit  == \E h \in habits : h.id = habit_id
    IN  /\ habits' = {h \in habits : h.id # habit_id}
        /\ checkins' =
               IF conn.foreign_keys /\ hit
               THEN {c \in checkins : c.habit_id # habit_id}
               ELSE checkins
        /\ last' = Call("delete_habit", habit_id, <<>>, <<>>, FALSE, <<>>, hit, TRUE)
        /\ UNCHANGED habit_seq

\* mutant: a plain INSERT, without the ON CONFLICT clause and its unique index
upsert_checkin_insert_only(habit_id, day, done, note, created_at) ==
    /\ Cardinality(checkins) < MaxCheckins
    /\ checkins' = checkins \cup
           {[habit_id |-> habit_id, day |-> day, done |-> IF done THEN 1 ELSE 0,
             note |-> Strip(note), created_at |-> created_at]}
    /\ last' = Call("upsert_checkin", habit_id, <<>>, day, done, note,
                    get_checkin(habit_id, day) # {}, TRUE)
    /\ UNCHANGED <<habits, habit_seq>>

\* INSERT ... ON CONFLICT(habit_id, day) DO UPDATE SET done, note.  The
\* surrogate key checkins.id is read by no caller and is left out of the row.
upsert_checkin(habit_id, day, done, note, created_at) ==
    LET conn == connect
        d    == IF done THEN 1 ELSE 0
        nt   == Strip(note)
        old  == {c \in checkins : c.habit_id = habit_id /\ c.day = day}
    IN  /\ ~conn.foreign_keys \/ (\E h \in habits : h.id = habit_id)
        /\ IF old # {}
           THEN checkins' =
                    {IF c \in old THEN [c EXCEPT !.done = d, !.note = nt] ELSE c :
                         c \in checkins}
           ELSE /\ Cardinality(checkins) < MaxCheckins
                /\ checkins' = checkins \cup
                       {[habit_id |-> habit_id, day |-> day, done |-> d,
                         note |-> nt, created_at |-> created_at]}
        /\ last' = Call("upsert_checkin", habit_id, <<>>, day, done, note, old # {}, TRUE)
        /\ UNCHANGED <<habits, habit_seq>>

(***************************************************************************)
(* Inputs of the db calls.                                                 *)
(***************************************************************************)
NameInputs == {<<" ", "a", " ">>, <<"b">>}
DescInputs == {<<"d", " ">>}
SchedInputs ==
    {[schedule_type |-> "custom", custom_days |-> <<"0", ",", "2", " ">>]}
NoteInputs == {<<>>, <<" ", "n">>}
StampInputs == {"t"}
CheckinDays == {isoformat(0), isoformat(1)}
HabitIds == 1..MaxHabits

ApiCreateHabit ==
    /\ \E n \in NameInputs, ds \in DescInputs, s \in SchedInputs, t \in StampInputs :
           create_habit(n, ds, s.schedule_type, s.custom_days, t)
    /\ UNCHANGED <<pageVars, callVars>>

ApiDeleteHabit ==
    /\ \E id \in HabitIds : delete_habit(id)
    /\ UNCHANGED <<pageVars, callVars>>

ApiUpsertCheckin ==
    /\ \E id \in HabitIds, day \in CheckinDays, dn \in BOOLEAN,
          nt \in NoteInputs, t \in StampInputs :
           upsert_checkin(id, day, dn, nt, t)
    /\ UNCHANGED <<pageVars, callVars>>

StoreInit ==
    /\ habits = {}
    /\ habit_seq = 0
    /\ checkins = {}
    /\ last = NoCall

(***************************************************************************)
(* pages/1_Habits.py: one action per button; a press runs the script once. *)
(***************************************************************************)
NoEvent == [button |-> "none", name |-> <<>>, target |-> None]

Pressed(button, name) == [button |-> button, name |-> name, target |-> edit_id]

PageInit ==
    /\ edit_id = None
    /\ confirm_delete = FALSE
    /\ toast = ""
    /\ event = NoEvent

DigitChar(d) ==
    CASE d = 0 -> "0" [] d = 1 -> "1" [] d = 2 -> "2" [] d = 3 -> "3"
      [] d = 4 -> "4" [] d = 5 -> "5" [] d = 6 -> "6"

RECURSIVE days_to_string(_)
days_to_string(selected) ==
    IF selected = {} THEN <<>>
    ELSE LET m == CHOOSE x \in selected : \A y \in selected : x <= y
         IN  IF selected = {m} THEN <<DigitChar(m)>>
             ELSE <<DigitChar(m), ",">> \o days_to_string(selected \ {m})

\* habit = db.get_habit(edit_id) if edit_id else None
EditedHabit == IF edit_id = None THEN {} ELSE get_habit(edit_id)

PressEdit ==
    /\ \E h \in habits :
           /\ edit_id' = h.id
           /\ event' = Pressed("Edit", <<>>)
    /\ UNCHANGED <<storeVars, confirm_delete, toast, callVars>>

PressSave(name, desc, schedule_type, selected_days) ==
    LET custom_days ==
            IF schedule_type = "custom" THEN days_to_string(selected_days) ELSE <<>>
    IN  /\ event' = Pressed("Save", name)
        /\ IF Strip(name) = <<>>
           THEN /\ toast' = "Please enter a name."
                /\ UNCHANGED <<storeVars, edit_id>>
           ELSE /\ IF EditedHabit # {}
                   THEN \E habit \in EditedHabit :
                            update_habit(habit.id, name, desc, schedule_type, custom_days)
                   ELSE create_habit(name, desc, schedule_type, custom_days, "t")
                /\ IF last'.ok
                   THEN /\ toast' = IF EditedHabit # {} THEN "Habit updated"
                                                       ELSE "Habit created"
                        /\ edit_id' = None
                   ELSE /\ toast' = "Could not save habit. Names must be unique."
                        /\ UNCHANGED edit_id
        /\ UNCHANGED <<confirm_delete, callVars>>

PressDelete ==
    /\ EditedHabit # {}
    /\ confirm_delete' = TRUE
    /\ event' = Pressed("Delete", <<>>)
    /\ UNCHANGED <<storeVars, edit_id, toast, callVars>>

PressCancel ==
    /\ EditedHabit # {}
    /\ confirm_delete = TRUE
    /\ confirm_delete' = FALSE
    /\ event' = Pressed("Cancel", <<>>)
    /\ UNCHANGED <<storeVars, edit_id, toast, callVars>>

PressDeletePermanently ==
    /\ confirm_delete = TRUE
    /\ \E habit \in EditedHabit : delete_habit(habit.id)
    /\ confirm_delete' = FALSE
    /\ edit_id' = None
    /\ toast' = "Habit deleted"
    /\ event' = Pressed("Delete permanently", <<>>)
    /\ UNCHANGED callVars

FormNames == {<<"a">>, <<" ", "a", " ">>, <<"b">>, <<" ">>}
FormSchedules ==
    {[schedule_type |-> "daily", selected |-> {}],
     [schedule_type |-> "custom", selected |-> {0, 2}]}

Save ==
    \E n \in FormNames, ds \in DescInputs, s \in FormSchedules :
        PressSave(n, ds, s.schedule_type, s.selected)

CallIdle ==
    /\ arg = <<>>
    /\ pc = "idle"
    /\ cur = 0
    /\ streak = 0
    /\ ret = 0

(***************************************************************************)
(* Spec: the storage layer under any sequence of create_habit,             *)
(* delete_habit and upsert_checkin calls.                                  *)
(***************************************************************************)
Init == StoreInit /\ PageInit /\ CallIdle

Next == ApiCreateHabit \/ ApiDeleteHabit \/ ApiUpsertCheckin

Spec == Init /\ [][Next]_vars

(***************************************************************************)
(* SpecPage: the Habits page under any sequence of button presses.         *)
(***************************************************************************)
NextPage ==
    PressEdit \/ Save \/ PressDelete \/ PressCancel \/ PressDeletePermanently

SpecPage == Init /\ [][NextPage]_vars

(***************************************************************************)
(* metrics.py: schedule evaluation.                                        *)
(***************************************************************************)
RECURSIVE ParseTokens(_)
ParseTokens(parts) ==
    IF parts = <<>> THEN {}
    ELSE LET p == Strip(Head(parts))
             r == IntParse(p)
         IN  IF p = <<>> THEN ParseTokens(Tail(parts))
             ELSE IF r.ok THEN {r.val} \cup ParseTokens(Tail(parts))
             ELSE ParseTokens(Tail(parts))

parse_custom_days(custom_days) ==
    LET s == Strip(custom_days)
    IN  IF s = <<>> THEN {} ELSE ParseTokens(Split(s))

RECURSIVE Sorted(_)
Sorted(S) ==
    IF S = {} THEN <<>>
    ELSE LET m == CHOOSE x \in S : \A y \in S : x <= y
         IN  <<m>> \o Sorted(S \ {m})

\* pages/1_Habits.py: the same parse, kept to 0..6 and returned sorted
string_to_days(s0) ==
    LET s == Strip(s0)
    IN  IF s = <<>> THEN <<>>
        ELSE Sorted({d \in ParseTokens(Split(s)) : 0 <= d /\ d <= 6})

\* mutant: Saturday counted as a weekday
is_due_on_saturday(habit, d) ==
    LET st == habit.schedule_type
    IN  IF st = "daily" THEN TRUE
        ELSE IF st = "weekdays" THEN Weekday(d) <= 5
        ELSE IF st = "custom" THEN Weekday(d) \in parse_custom_days(habit.custom_days)
        ELSE TRUE

is_due_on(habit, d) ==
    LET st == habit.schedule_type
    IN  IF st = "daily" THEN TRUE
        ELSE IF st = "weekdays" THEN Weekday(d) < 5
        ELSE IF st = "custom" THEN Weekday(d) \in parse_custom_days(habit.custom_days)
        ELSE TRUE

(***************************************************************************)
(* SpecDue: is_due_on, parse_custom_days and string_to_days applied to     *)
(* every schedule type, every custom_days text up to MaxLen characters     *)
(* and every weekday.                                                      *)
(***************************************************************************)
Alphabet == {"0", "2", "9", ",", " ", "-", "x"}

Texts(n) == UNION {[1..k -> Alphabet] : k \in 0..n}

CustomDaysInputs == Texts(MaxLen) \cup {<<"0", ",", "2", ",", "4">>}

ScheduleTypes == {"daily", "weekdays", "custom", "monthly"}

DueInit ==
    /\ arg \in [habit : [schedule_type : ScheduleTypes, custom_days : CustomDaysInputs],
                d : 0..6]
    /\ pc = "init"
    /\ cur = 0
    /\ streak = 0
    /\ ret = 0

call_is_due_on ==
    /\ pc = "init"
    /\ pc' = "is_due_on"
    /\ ret' = is_due_on(arg.habit, arg.d)
    /\ UNCHANGED <<storeVars, pageVars, arg, cur, streak>>

call_parse_custom_days ==
    /\ pc = "init"
    /\ pc' = "parse_custom_days"
    /\ ret' = parse_custom_days(arg.habit.custom_days)
    /\ UNCHANGED <<storeVars, pageVars, arg, cur, streak>>

call_string_to_days ==
    /\ pc = "init"
    /\ pc' = "string_to_days"
    /\ ret' = string_to_days(arg.habit.custom_days)
    /\ UNCHANGED <<storeVars, pageVars, arg, cur, streak>>

InitDue == StoreInit /\ PageInit /\ DueInit

NextDue == call_is_due_on \/ call_parse_custom_days \/ call_string_to_days

SpecDue == InitDue /\ [][NextDue]_vars

(***************************************************************************)
(* metrics.py: check-in lookup and the streak / rate calculations.         *)
(***************************************************************************)
RECURSIVE daterange(_, _)
daterange(start, end) ==
    IF start <= end THEN <<start>> \o daterange(start + 1, end) ELSE <<>>

\* {c["day"]: int(c.get("done", 0)) for c in checkins}: a later entry of
\* the same day replaces an earlier one
checkin_lookup(checkins_list) ==
    [k \in {checkins_list[i].day : i \in 1..Len(checkins_list)} |->
        LET at == {i \in 1..Len(checkins_list) : checkins_list[i].day = k}
        IN  checkins_list[CHOOSE i \in at : \A j \in at : j <= i].done]

\* lookup.get(key, default)
Get(lookup, key, default) ==
    IF key \in DOMAIN lookup THEN lookup[key] ELSE default

\* current_streak, lines 76-79: build the lookup, streak = 0, cur = today
current_streak_enter ==
    /\ pc = "init"
    /\ pc' = "loop"
    /\ streak' = 0
    /\ cur' = arg.today
    /\ UNCHANGED <<storeVars, pageVars, arg, ret>>

\* mutant: a day that is not due ends the walk
current_streak_loop_strict ==
    /\ pc = "loop"
    /\ IF is_due_on(arg.habit, cur)
          /\ Get(checkin_lookup(arg.checkins), isoformat(cur), 0) = 1
       THEN /\ streak' = streak + 1
            /\ cur' = cur - 1
            /\ UNCHANGED <<pc, ret>>
       ELSE /\ pc' = "done"
            /\ ret' = streak
            /\ UNCHANGED <<cur, streak>>
    /\ UNCHANGED <<storeVars, pageVars, arg>>

\* mutant: a day that is not due is not stepped over
current_streak_loop_stuck ==
    /\ pc = "loop"
    /\ IF ~is_due_on(arg.habit, cur)
       THEN UNCHANGED <<cur, streak, pc, ret>>
       ELSE IF Get(checkin_lookup(arg.checkins), isoformat(cur), 0) = 1
            THEN /\ streak' = streak + 1
                 /\ cur' = cur - 1
                 /\ UNCHANGED <<pc, ret>>
            ELSE /\ pc' = "done"
                 /\ ret' = streak
                 /\ UNCHANGED <<cur, streak>>
    /\ UNCHANGED <<storeVars, pageVars, arg>>

\* current_streak, lines 80-94: one iteration of "while True"
current_streak_loop ==
    /\ pc = "loop"
    /\ IF ~is_due_on(arg.habit, cur)
       THEN /\ cur' = cur - 1
            /\ IF streak = 0 /\ (arg.today - cur') > 60
               THEN /\ pc' = "done"
                    /\ ret' = 0
               ELSE UNCHANGED <<pc, ret>>
            /\ UNCHANGED streak
       ELSE IF Get(checkin_lookup(arg.checkins), isoformat(cur), 0) = 1
            THEN /\ streak' = streak + 1
                 /\ cur' = cur - 1
                 /\ UNCHANGED <<pc, ret>>
            ELSE /\ pc' = "done"
                 /\ ret' = streak
                 /\ UNCHANGED <<cur, streak>>
    /\ UNCHANGED <<storeVars, pageVars, arg>>

(***************************************************************************)
(* Inputs of the streak and rate calculations: a habit record and the      *)
(* list list_checkins_for_habit returns for it (ordered by day, one entry  *)
(* per day), here over Window consecutive days.                            *)
(***************************************************************************)
HabitInputs ==
    {[schedule_type |-> "daily", custom_days |-> <<>>],
     [schedule_type |-> "weekdays", custom_days |-> <<>>],
     [schedule_type |-> "custom", custom_days |-> <<"0", ",", "2", ",", "4">>],
     [schedule_type |-> "custom", custom_days |-> <<"5">>],
     [schedule_type |-> "custom", custom_days |-> <<>>],
     [schedule_type |-> "custom", custom_days |-> <<"9", ",", "x">>],
     [schedule_type |-> "monthly", custom_days |-> <<>>]}

\* the lists with an entry (done 0 or 1) for some of the days first..last
RECURSIVE CheckinLists(_, _)
CheckinLists(first, lastDay) ==
    IF first > lastDay THEN {<<>>}
    ELSE LET rest == CheckinLists(first + 1, lastDay)
         IN  rest \cup
             {<<[day |-> isoformat(first), done |-> dn, note |-> <<>>]>> \o r :
                  dn \in {0, 1}, r \in rest}

\* today is Sat 2 March .. Fri 8 March 2024: every weekday, and more than
\* 60 days after the first day of the calendar
Todays == 61..67

NeverDue(h) == \A w \in 0..6 : ~is_due_on(h, w)

\* A schedule that is never due is walked 61 days back whatever the list
\* holds; it is paired with the lists over the last Window - 3 days.
StreakInit ==
    /\ \E h \in HabitInputs, t \in Todays :
           \E cs \in CheckinLists(t - (IF NeverDue(h) THEN Window - 3 ELSE Window) + 1, t) :
               arg = [habit |-> h, checkins |-> cs, today |-> t]
    /\ pc = "init"
    /\ cur = 0
    /\ streak = 0
    /\ ret = 0

InitStreak == StoreInit /\ PageInit /\ StreakInit

NextStreak == current_streak_enter \/ current_streak_loop

SpecStreak == InitStreak /\ [][NextStreak]_vars

(***************************************************************************)
(* metrics.py: longest_streak and success_rate.                            *)
(***************************************************************************)
due_days_for_habit(habit, start, end) ==
    SelectSeq(daterange(start, end), LAMBDA d : is_due_on(habit, d))

Max(a, b) == IF a >= b THEN a ELSE b

\* the "for d in daterange(start, end)" loop of longest_streak, from the
\* days still to visit and the values of cur_streak and longest
RECURSIVE LongestLoop(_, _, _, _, _)
LongestLoop(days, habit, lookup, cur_streak, longest) ==
    IF days = <<>> THEN longest
    ELSE IF ~is_due_on(habit, Head(days))
         THEN LongestLoop(Tail(days), habit, lookup, cur_streak, longest)
         ELSE IF Get(lookup, isoformat(Head(days)), 0) = 1
              THEN LongestLoop(Tail(days), habit, lookup, cur_streak + 1,
                               Max(longest, cur_streak + 1))
              ELSE LongestLoop(Tail(days), habit, lookup, 0, longest)

\* mutant: a day that is not due resets the running count
RECURSIVE LongestLoopReset(_, _, _, _, _)
LongestLoopReset(days, habit, lookup, cur_streak, longest) ==
    IF days = <<>> THEN longest
    ELSE IF is_due_on(habit, Head(days))
            /\ Get(lookup, isoformat(Head(days)), 0) = 1
         THEN LongestLoopReset(Tail(days), habit, lookup, cur_streak + 1,
                               Max(longest, cur_streak + 1))
         ELSE LongestLoopReset(Tail(days), habit, lookup, 0, longest)

longest_streak_reset(habit, checkins_list, start, end) ==
    LongestLoopReset(daterange(start, end), habit, checkin_lookup(checkins_list), 0, 0)

longest_streak(habit, checkins_list, start, end) ==
    LongestLoop(daterange(start, end), habit, checkin_lookup(checkins_list), 0, 0)

\* a float done / due is kept as the fraction [num, den]; 0.0 is 0/1
Rate(num, den) == [num |-> num, den |-> den]

\* mutant: the ratio is taken over every day of the window
success_rate_all_days(habit, checkins_list, start, end) ==
    LET due == due_days_for_habit(habit, start, end)
        lookup == checkin_lookup(checkins_list)
        done == Len(SelectSeq(due, LAMBDA d : Get(lookup, isoformat(d), 0) = 1))
    IN  IF due = <<>> THEN Rate(0, 1) ELSE Rate(done, Len(daterange(start, end)))

success_rate(habit, checkins_list, start, end) ==
    LET due == due_days_for_habit(habit, start, end)
        lookup == checkin_lookup(checkins_list)
        done == Len(SelectSeq(due, LAMBDA d : Get(lookup, isoformat(d), 0) = 1))
    IN  IF due = <<>> THEN Rate(0, 1) ELSE Rate(done, Len(due))

(***************************************************************************)
(* SpecWindow: longest_streak and success_rate over the ranges             *)
(* [start, end] of the week of Monday 1 January 2024 (start > end          *)
(* included), with check-ins on its first Window days.                     *)
(***************************************************************************)
WindowInit ==
    /\ \E h \in HabitInputs, cs \in CheckinLists(0, Window - 1), st \in 0..2 :
           \E en \in (st - 1)..(Window + 1) :
               arg = [habit |-> h, checkins |-> cs, start |-> st, end |-> en]
    /\ pc = "init"
    /\ cur = 0
    /\ streak = 0
    /\ ret = 0

call_longest_streak ==
    /\ pc = "init"
    /\ pc' = "longest_streak"
    /\ ret' = longest_streak(arg.habit, arg.checkins, arg.start, arg.end)
    /\ UNCHANGED <<storeVars, pageVars, arg, cur, streak>>

call_success_rate ==
    /\ pc = "init"
    /\ pc' = "success_rate"
    /\ ret' = success_rate(arg.habit, arg.checkins, arg.start, arg.end)
    /\ UNCHANGED <<storeVars, pageVars, arg, cur, streak>>

InitWindow == StoreInit /\ PageInit /\ WindowInit

NextWindow == call_longest_streak \/ call_success_rate

SpecWindow == InitWindow /\ [][NextWindow]_vars

(***************************************************************************)
(* Habit_Tracker.py: month_bounds, daily_progress_frame; metrics.py:       *)
(* heatmap_frame.                                                          *)
(***************************************************************************)
\* code points of the characters used in names
Ord(c) == CASE c = " " -> 32 [] c = "a" -> 97 [] c = "b" -> 98 [] OTHER -> 120

\* ORDER BY name: byte-wise comparison of two texts
RECURSIVE TextLeq(_, _)
TextLeq(a, b) ==
    IF a = <<>> THEN TRUE
    ELSE IF b = <<>> THEN FALSE
    ELSE IF Ord(Head(a)) # Ord(Head(b)) THEN Ord(Head(a)) < Ord(Head(b))
    ELSE TextLeq(Tail(a), Tail(b))

RECURSIVE SortByName(_)
SortByName(rows) ==
    IF rows = {} THEN <<>>
    ELSE LET r == CHOOSE x \in rows : \A y \in rows : TextLeq(x.name, y.name)
         IN  <<r>> \o SortByName(rows \ {r})

list_habits == SortByName(habits)

\* st.cache_data(ttl=10) wrappers of the two queries; the cache is taken as
\* fresh (caching of query results is outside the specified core)
load_habits == list_habits

load_checkins_for_habit(habit_id) == list_checkins_for_habit(habit_id)

\* first and last day of the month of d
month_bounds(d) ==
    LET start == MonthFirst(MonthOf(d))
    IN  <<start, start + MonthLen(MonthOf(d)) - 1>>

\* the "for h in habits" loop of daily_progress_frame: due_counts and
\* done_counts after the habits still to visit
RECURSIVE CountLoop(_, _, _, _)
CountLoop(habits_list, days, due_counts, done_counts) ==
    IF habits_list = <<>> THEN [due |-> due_counts, done |-> done_counts]
    ELSE LET h == Head(habits_list)
             done_lookup == checkin_lookup(load_checkins_for_habit(h.id))
             isDue(d) == is_due_on(h, d)
             isDone(d) == isDue(d) /\ Get(done_lookup, isoformat(d), 0) = 1
         IN  CountLoop(Tail(habits_list), days,
                       [d \in days |-> due_counts[d] + IF isDue(d) THEN 1 ELSE 0],
                       [d \in days |-> done_counts[d] + IF isDone(d) THEN 1 ELSE 0])

\* mutant: a done check-in is counted whether or not the day is due
RECURSIVE CountLoopAnyDay(_, _, _, _)
CountLoopAnyDay(habits_list, days, due_counts, done_counts) ==
    IF habits_list = <<>> THEN [due |-> due_counts, done |-> done_counts]
    ELSE LET h == Head(habits_list)
             done_lookup == checkin_lookup(load_checkins_for_habit(h.id))
             isDue(d) == is_due_on(h, d)
             isDone(d) == Get(done_lookup, isoformat(d), 0) = 1
         IN  CountLoopAnyDay(Tail(habits_list), days,
                       [d \in days |-> due_counts[d] + IF isDue(d) THEN 1 ELSE 0],
                       [d \in days |-> done_counts[d] + IF isDone(d) THEN 1 ELSE 0])

\* Series.cumsum()
RECURSIVE cumsum(_)
cumsum(xs) ==
    IF xs = <<>> THEN <<>>
    ELSE LET front == cumsum(SubSeq(xs, 1, Len(xs) - 1))
         IN  Append(front, (IF front = <<>> THEN 0 ELSE front[Len(front)]) + xs[Len(xs)])

\* the data frame, one record per row
Frame(days, counts) ==
    LET due  == [i \in 1..Len(days) |-> counts.due[days[i]]]
        done == [i \in 1..Len(days) |-> counts.done[days[i]]]
        cum_due  == cumsum(due)
        cum_done == cumsum(done)
    IN  [i \in 1..Len(days) |->
            [day |-> days[i], due |-> due[i], done |-> done[i],
             cum_due |-> cum_due[i], cum_done |-> cum_done[i],
             completion_rate |-> IF due[i] # 0 THEN Rate(done[i], due[i])
                                 ELSE Rate(0, 1)]]

daily_progress_frame_any_day(habits_list, month_start, month_end) ==
    LET days == daterange(month_start, month_end)
        dset == {days[i] : i \in 1..Len(days)}
    IN  Frame(days, CountLoopAnyDay(habits_list, dset,
                                    [d \in dset |-> 0], [d \in dset |-> 0]))

daily_progress_frame(habits_list, month_start, month_end) ==
    LET days == daterange(month_start, month_end)
        dset == {days[i] : i \in 1..Len(days)}
    IN  Frame(days, CountLoop(habits_list, dset,
                              [d \in dset |-> 0], [d \in dset |-> 0]))

\* an optional cell (done, day_num): <<>> is None, <<v>> is the value v
Some(v) == <<v>>

\* mutant: cells before month_start keep the habit's own schedule
heatmap_frame_unclipped(habit, checkins_list, month_start, month_end) ==
    LET lookup == checkin_lookup(checkins_list)
        first_monday == month_start - Weekday(month_start)
        days == daterange(first_monday, month_end)
    IN  [i \in 1..Len(days) |->
            LET d == days[i]
                inMonth == month_start <= d /\ d <= month_end
                due == IF is_due_on(habit, d) THEN 1 ELSE 0
            IN  [day |-> d,
                 day_num |-> IF inMonth THEN Some(DayOfMonth(d)) ELSE <<>>,
                 done |-> IF due = 1 /\ isoformat(d) \in DOMAIN lookup
                          THEN Some(lookup[isoformat(d)]) ELSE <<>>,
                 due |-> due,
                 dow |-> Weekday(d),
                 week |-> (d - first_monday) \div 7]]

heatmap_frame(habit, checkins_list, month_start, month_end) ==
    LET lookup == checkin_lookup(checkins_list)
        first_monday == month_start - Weekday(month_start)
        days == daterange(first_monday, month_end)
    IN  [i \in 1..Len(days) |->
            LET d == days[i]
                inMonth == month_start <= d /\ d <= month_end
                due == IF is_due_on(habit, d) /\ inMonth THEN 1 ELSE 0
            IN  [day |-> d,
                 day_num |-> IF inMonth THEN Some(DayOfMonth(d)) ELSE <<>>,
                 done |-> IF due = 1 /\ isoformat(d) \in DOMAIN lookup
                          THEN Some(lookup[isoformat(d)]) ELSE <<>>,
                 due |-> due,
                 dow |-> Weekday(d),
                 week |-> (d - first_monday) \div 7]]

(***************************************************************************)
(* SpecMonth: the month views over a store holding one or two habits and   *)
(* their check-ins, for January, February and March 2024.                  *)
(***************************************************************************)
HabitRow(id, name, h) ==
    [id |-> id, name |-> name, description |-> <<>>,
     schedule_type |-> h.schedule_type, custom_days |-> h.custom_days,
     created_at |-> "t"]

CheckinRows(id, checkins_list) ==
    {[habit_id |-> id, day |-> checkins_list[i].day, done |-> checkins_list[i].done,
      note |-> checkins_list[i].note, created_at |-> "t"] :
         i \in 1..Len(checkins_list)}

\* done on every day first..lastDay
RECURSIVE AllDone(_, _)
AllDone(first, lastDay) ==
    IF first > lastDay THEN <<>>
    ELSE <<[day |-> isoformat(first), done |-> 1, note |-> <<>>]>>
             \o AllDone(first + 1, lastDay)

MonthPicks == {10, 40, 70}

MonthHabits ==
    {h \in HabitInputs : h.custom_days \in {<<>>, <<"0", ",", "2", ",", "4">>}}

\* check-ins of the first habit: none, every day of the month, or any list
\* over the Window - 3 days that begin on the eve of the month
FirstLists(ms, me) ==
    {AllDone(ms, me)} \cup CheckinLists(Max(ms - 1, 0), Max(ms - 1, 0) + Window - 4)

\* check-ins of the second habit: none, every day, or the first day only
SecondLists(ms, me) == {<<>>, AllDone(ms, me), AllDone(ms, ms)}

MonthInit ==
    /\ \E pick \in MonthPicks :
           LET ms == month_bounds(pick)[1]
               me == month_bounds(pick)[2]
           IN  \E h1 \in MonthHabits, l1 \in FirstLists(ms, me) :
                   /\ arg = [month_pick |-> pick]
                   /\ \/ /\ habits = {HabitRow(1, <<"b">>, h1)}
                         /\ habit_seq = 1
                         /\ checkins = CheckinRows(1, l1)
                      \/ \E h2 \in {h \in MonthHabits : h.schedule_type # "custom"},
                            l2 \in SecondLists(ms, me) :
                             /\ habits = {HabitRow(1, <<"b">>, h1),
                                          HabitRow(2, <<"a">>, h2)}
                             /\ habit_seq = 2
                             /\ checkins = CheckinRows(1, l1) \cup CheckinRows(2, l2)
    /\ last = NoCall
    /\ pc = "init"
    /\ cur = 0
    /\ streak = 0
    /\ ret = 0

call_daily_progress_frame ==
    /\ pc = "init"
    /\ pc' = "daily_progress_frame"
    /\ ret' = daily_progress_frame(load_habits, month_bounds(arg.month_pick)[1],
                                   month_bounds(arg.month_pick)[2])
    /\ UNCHANGED <<storeVars, pageVars, arg, cur, streak>>

call_heatmap_frame ==
    /\ pc = "init"
    /\ pc' = "heatmap_frame"
    /\ \E h \in get_habit(1) :
           ret' = heatmap_frame(h, load_checkins_for_habit(h.id),
                                month_bounds(arg.month_pick)[1],
                                month_bounds(arg.month_pick)[2])
    /\ UNCHANGED <<storeVars, pageVars, arg, cur, streak>>

InitMonth == MonthInit /\ PageInit

NextMonth == call_daily_progress_frame \/ call_heatmap_frame

SpecMonth == InitMonth /\ [][NextMonth]_vars

(***************************************************************************)
(* C1.  Once delete_habit(h) has returned (h a habit of the store), no      *)
(* check-in row of h remains: list_checkins_for_habit(h) is empty and      *)
(* get_checkin(h, day) is None for every day.                              *)
(***************************************************************************)
C1_DeleteRemovesCheckins ==
    (last.op = "delete_habit" /\ last.hit) =>
        /\ list_checkins_for_habit(last.habit_id) = <<>>
        /\ \A day \in CheckinDays : get_checkin(last.habit_id, day) = {}

(***************************************************************************)
(* C2.  The store never holds two check-in rows for one (habit_id, day),   *)
(* and after upsert_checkin(h, day, done, note) the pair has exactly one   *)
(* row, carrying done as 0/1 and the (trimmed) note of that call.          *)
(***************************************************************************)
C2_OneCheckinPerDay ==
    /\ \A c1, c2 \in checkins :
           (c1.habit_id = c2.habit_id /\ c1.day = c2.day) => c1 = c2
    /\ last.op = "upsert_checkin" =>
           /\ Cardinality(get_checkin(last.habit_id, last.day)) = 1
           /\ \A c \in get_checkin(last.habit_id, last.day) :
                  /\ c.done = (IF last.done THEN 1 ELSE 0)
                  /\ c.note = Strip(last.note)

\* "mark done" on a pair that already had a row
C2_Witness ==
    /\ last.op = "upsert_checkin"
    /\ last.hit
    /\ last.done
    /\ \E c \in get_checkin(last.habit_id, last.day) : c.done = 1

(***************************************************************************)
(* C8.  A Save whose trimmed name is the name of another existing habit    *)
(* makes create_habit / update_habit raise, leaves table habits as it was, *)
(* shows the "Could not save habit" toast and keeps the edit target; habit *)
(* names stay unique.                                                      *)
(***************************************************************************)
NamesUnique == \A h1, h2 \in habits : h1.name = h2.name => h1 = h2

SaveClash ==
    /\ event'.button = "Save"
    /\ Strip(event'.name) # <<>>
    /\ \E h \in habits : h.name = Strip(event'.name) /\ {h} # EditedHabit

C8_DuplicateNameRejected ==
    [][ /\ NamesUnique'
        /\ SaveClash =>
              /\ last'.op \in {"create_habit", "update_habit"}
              /\ last'.name = event'.name
              /\ ~last'.ok
              /\ habits' = habits
              /\ toast' = "Could not save habit. Names must be unique."
              /\ edit_id' = edit_id ]_vars

\* the state after a rejected rename of the habit under edit
C8_Witness ==
    /\ event.button = "Save"
    /\ last.op = "update_habit"
    /\ ~last.ok
    /\ edit_id # None
    /\ toast = "Could not save habit. Names must be unique."

(***************************************************************************)
(* C3.  is_due_on(habit, d) is TRUE for 'daily', weekday(d) < 5 for        *)
(* 'weekdays', "weekday(d) is one of the integers written in custom_days"  *)
(* for 'custom' (so FALSE on every day when no token denotes a weekday),   *)
(* and TRUE for any other schedule_type.                                   *)
(***************************************************************************)
\* the integers denoted by the comma-separated tokens of a text
Denoted(text) ==
    LET parts == Split(text)
    IN  {IntParse(Strip(parts[i])).val :
             i \in {j \in 1..Len(parts) : IntParse(Strip(parts[j])).ok}}

RefDue(habit, d) ==
    CASE habit.schedule_type = "daily"    -> TRUE
      [] habit.schedule_type = "weekdays" -> Weekday(d) \in {0, 1, 2, 3, 4}
      [] habit.schedule_type = "custom"   ->
             \E w \in 0..6 : w = Weekday(d) /\ w \in Denoted(habit.custom_days)
      [] OTHER -> TRUE

C3_IsDueOnMatchesSchedule ==
    pc = "is_due_on" =>
        /\ ret = RefDue(arg.habit, arg.d)
        /\ (arg.habit.schedule_type = "custom"
              /\ Denoted(arg.habit.custom_days) \cap (0..6) = {}) => ret = FALSE

\* a custom schedule with a malformed token that is due on the day asked
C3_Witness ==
    /\ pc = "is_due_on"
    /\ arg.habit.schedule_type = "custom"
    /\ arg.habit.custom_days = <<"x", ",", "2">>
    /\ arg.d = 2
    /\ ret = TRUE

(***************************************************************************)
(* C9.  The weekday set parse_custom_days derives from a custom_days text  *)
(* is a subset of 0..6: tokens that are no integers and integers outside   *)
(* 0..6 are skipped.                                                       *)
(***************************************************************************)
C9_ParsedDaysAreWeekdays ==
    pc = "parse_custom_days" => ret \subseteq 0..6

(***************************************************************************)
(* C4.  current_streak returns the number of due days, counted backward    *)
(* from today, that precede the first due day without a done check-in;     *)
(* days that are not due neither end nor extend the count.  A daily habit  *)
(* done on today-4..today and not on today-5 gives 5; a habit due today    *)
(* and not done today gives 0.                                             *)
(***************************************************************************)
DoneOn(checkins_list, d) ==
    \E i \in 1..Len(checkins_list) :
        checkins_list[i].day = isoformat(d) /\ checkins_list[i].done = 1

\* the due days d up to today such that no due day in d..today lacks a
\* done check-in
RefCurrentStreak(habit, checkins_list, today) ==
    LET due    == {d \in 0..today : is_due_on(habit, d)}
        misses == {d \in due : ~DoneOn(checkins_list, d)}
    IN  Cardinality({d \in due : \A e \in misses : e < d})

C4_CurrentStreakCounts ==
    pc = "done" =>
        /\ ret = RefCurrentStreak(arg.habit, arg.checkins, arg.today)
        /\ (is_due_on(arg.habit, arg.today) /\ ~DoneOn(arg.checkins, arg.today))
              => ret = 0
        /\ (arg.habit.schedule_type = "daily"
              /\ (\A d \in (arg.today - 4)..arg.today : DoneOn(arg.checkins, d))
              /\ ~DoneOn(arg.checkins, arg.today - 5)) => ret = 5

\* a weekdays habit whose streak of 3 runs across a weekend
C4_Witness ==
    /\ pc = "done"
    /\ arg.habit.schedule_type = "weekdays"
    /\ Weekday(arg.today) = 1
    /\ ret = 3

(***************************************************************************)
(* C5.  longest_streak returns the length of the longest run of            *)
(* consecutive due days of [start, end] that all have a done check-in      *)
(* (days that are not due are skipped, a due day that is not done ends the *)
(* run); 0 when start > end or no due day is done.  A weekdays habit done  *)
(* Mon, Tue, Thu, Fri and missed Wed gives 2.                              *)
(***************************************************************************)
\* the greatest number of due days in a stretch a..b of the range in which
\* every due day is done
RefLongest(habit, checkins_list, start, end) ==
    LET due  == {d \in start..end : is_due_on(habit, d)}
        good == {d \in due : DoneOn(checkins_list, d)}
        runs == {Cardinality({d \in due : a <= d /\ d <= b}) :
                     <<a, b>> \in {r \in (start..end) \X (start..end) :
                                       \A d \in due : (r[1] <= d /\ d <= r[2]) => d \in good}}
    IN  IF runs = {} THEN 0 ELSE CHOOSE n \in runs : \A m \in runs : m <= n

C5_LongestStreakIsLongestRun ==
    pc = "longest_streak" =>
        /\ ret = RefLongest(arg.habit, arg.checkins, arg.start, arg.end)
        /\ arg.start > arg.end => ret = 0
        /\ (\A d \in arg.start..arg.end :
                is_due_on(arg.habit, d) => ~DoneOn(arg.checkins, d)) => ret = 0
        /\ (/\ arg.habit.schedule_type = "weekdays"
            /\ arg.start = 0 /\ arg.end \in {4, 5, 6}
            /\ \A d \in {0, 1, 3, 4} : DoneOn(arg.checkins, d)
            /\ ~DoneOn(arg.checkins, 2)) => ret = 2

\* Mon/Wed/Fri habit done on all three days: the run passes over Tue and Thu
C5_Witness ==
    /\ pc = "longest_streak"
    /\ arg.habit.custom_days = <<"0", ",", "2", ",", "4">>
    /\ arg.start = 0 /\ arg.end = 4
    /\ ~DoneOn(arg.checkins, 1) /\ ~DoneOn(arg.checkins, 3)
    /\ ret = 3

(***************************************************************************)
(* C6.  success_rate returns (due days of the window with a done           *)
(* check-in) / (due days of the window), between 0 and 1; exactly 0 when   *)
(* the window has no due day.  Check-ins on days that are not due or lie   *)
(* outside the window do not change it.                                    *)
(***************************************************************************)
\* the entries of a list that lie on due days of the window
OnDueDays(habit, checkins_list, start, end) ==
    SelectSeq(checkins_list,
              LAMBDA c : \E d \in start..end :
                             is_due_on(habit, d) /\ c.day = isoformat(d))

C6_SuccessRateIsDoneOverDue ==
    pc = "success_rate" =>
        LET due  == {d \in arg.start..arg.end : is_due_on(arg.habit, d)}
            good == {d \in due : DoneOn(arg.checkins, d)}
        IN  /\ ret = IF due = {} THEN Rate(0, 1)
                     ELSE Rate(Cardinality(good), Cardinality(due))
            /\ 0 <= ret.num /\ ret.num <= ret.den /\ ret.den > 0
            /\ ret = success_rate(arg.habit,
                                  OnDueDays(arg.habit, arg.checkins, arg.start, arg.end),
                                  arg.start, arg.end)

\* a weekdays habit with a done check-in outside the window: 1 of 2
C6_Witness ==
    /\ pc = "success_rate"
    /\ arg.habit.schedule_type = "weekdays"
    /\ arg.start = 1 /\ arg.end = 2
    /\ DoneOn(arg.checkins, 0)
    /\ ret = Rate(1, 2)

(***************************************************************************)
(* C7.  Every row of daily_progress_frame has due = number of habits due   *)
(* that day, done = number of those with a done check-in that day (so      *)
(* done <= due), cum_due and cum_done the running sums, completion_rate =  *)
(* done/due or 0 when due is 0.  A single daily habit done on every day    *)
(* of the month has cum_done = cum_due on the last day and rate 1 on       *)
(* every day.                                                              *)
(***************************************************************************)
DueHabits(d) == {h \in habits : is_due_on(h, d)}

DoneHabits(d) ==
    {h \in DueHabits(d) :
         \E c \in checkins : c.habit_id = h.id /\ c.day = isoformat(d) /\ c.done = 1}

C10_HeatmapGrid ==
    pc = "heatmap_frame" =>
        LET ms == month_bounds(arg.month_pick)[1]
            me == month_bounds(arg.month_pick)[2]
            fm == CHOOSE m \in (ms - 6)..ms : Weekday(m) = 0
            h  == CHOOSE x \in habits : x.id = 1
            mine(d) == {c \in checkins : c.habit_id = 1 /\ c.day = isoformat(d)}
        IN  /\ Len(ret) = me - fm + 1
            /\ \A i \in 1..Len(ret) :
                   LET d == fm + i - 1
                   IN  /\ ret[i].day = d
                       /\ ret[i].dow = Weekday(d)
                       /\ ret[i].week * 7 <= d - fm /\ d - fm < (ret[i].week + 1) * 7
                       /\ d < ms =>
                              /\ ret[i].due = 0
                              /\ ret[i].done = <<>>
                              /\ ret[i].day_num = <<>>
                       /\ d >= ms =>
                              /\ ret[i].due = (IF is_due_on(h, d) THEN 1 ELSE 0)
                              /\ ret[i].day_num = <<DayOfMonth(d)>>
                              /\ ret[i].done =
                                     IF ret[i].due = 1 /\ mine(d) # {}
                                     THEN <<(CHOOSE c \in mine(d) : TRUE).done>>
                                     ELSE <<>>

\* a daily habit with a done check-in on the eve of a month that does not
\* begin on a Monday: the cell is not due and carries no done flag
C10_Witness ==
    /\ pc = "heatmap_frame"
    /\ \E h \in habits : h.id = 1 /\ h.schedule_type = "daily"
    /\ \E i \in 1..Len(ret) :
           /\ ret[i].day < month_bounds(arg.month_pick)[1]
           /\ ret[i].due = 0
           /\ \E c \in checkins :
                  c.habit_id = 1 /\ c.day = isoformat(ret[i].day) /\ c.done = 1

(***************************************************************************)
(* Habit_Tracker.py: the reminder time of the Today section.               *)
(***************************************************************************)
\* s.split(sep): the pieces between separators, empty pieces included
RECURSIVE SplitOn(_, _)
SplitOn(s, sep) ==
    IF \A i \in 1..Len(s) : s[i] # sep
    THEN <<s>>
    ELSE LET k == CHOOSE i \in 1..Len(s) :
                      s[i] = sep /\ \A j \in 1..(i - 1) : s[j] # sep
         IN  <<SubSeq(s, 1, k - 1)>> \o SplitOn(SubSeq(s, k + 1, Len(s)), sep)

\* int(p) of a piece that was not stripped: int() itself drops the
\* whitespace around the number
IntOf(p) == IntParse(Strip(p))

\* db.get_setting: the stored value of the key, or the default when the
\* table has no row for it (rows: the fetchone result as a set)
get_setting(rows, default) ==
    IF rows = {} THEN default ELSE CHOOSE v \in rows : TRUE

\* the unpacking "hh, mm = ..." raises unless there are exactly two pieces,
\* int() raises on a piece that is no integer; both are caught
parse_hhmm(text) ==
    LET parts == SplitOn(Strip(text), ":")
    IN  IF Len(parts) # 2 THEN <<18, 0>>
        ELSE LET hh == IntOf(parts[1])
                 mm == IntOf(parts[2])
             IN  IF hh.ok /\ mm.ok THEN <<hh.val, mm.val>> ELSE <<18, 0>>

\* datetime.combine(today, time.min).replace(hour=hh, minute=mm): raises
\* ValueError (ok = FALSE) unless hh is in 0..23 and mm in 0..59
remind_dt(hh, mm) ==
    IF hh \in 0..23 /\ mm \in 0..59
    THEN [ok |-> TRUE, hour |-> hh, minute |-> mm]
    ELSE [ok |-> FALSE, hour |-> 0, minute |-> 0]

DefaultReminder == <<"1", "8", ":", "0", "0">>

(***************************************************************************)
(* SpecTime: parse_hhmm and the reminder time of render_today for every    *)
(* stored reminder_time text up to MaxTimeLen characters, and for a        *)
(* settings table without the key.                                         *)
(***************************************************************************)
TimeAlphabet == {"0", "2", "6", ":", " ", "x"}

TimeTexts(n) == UNION {[1..k -> TimeAlphabet] : k \in 0..n}

TimeInputs ==
    TimeTexts(MaxTimeLen) \cup {<<"-", "2", ":", "0">>, <<"0", ":", "-", "2">>}

TimeInit ==
    /\ arg \in [reminder_time : {{}} \cup {{t} : t \in TimeInputs}]
    /\ pc = "init"
    /\ cur = 0
    /\ streak = 0
    /\ ret = 0

call_parse_hhmm ==
    /\ pc = "init"
    /\ pc' = "parse_hhmm"
    /\ ret' = parse_hhmm(get_setting(arg.reminder_time, DefaultReminder))
    /\ UNCHANGED <<storeVars, pageVars, arg, cur, streak>>

\* render_today, lines 131-134: the reminder banner's time
render_today ==
    /\ pc = "init"
    /\ pc' = "render_today"
    /\ LET reminder == get_setting(arg.reminder_time, DefaultReminder)
           hm == parse_hhmm(reminder)
       IN  ret' = remind_dt(hm[1], hm[2])
    /\ UNCHANGED <<storeVars, pageVars, arg, cur, streak>>

InitTime == StoreInit /\ PageInit /\ TimeInit

NextTime == call_parse_hhmm \/ render_today

SpecTime == InitTime /\ [][NextTime]_vars

\* the time of day a text denotes, if any: two ':'-separated integers, the
\* hour in 0..23 and the minute in 0..59
TimeOfDay(text) ==
    LET parts == SplitOn(Strip(text), ":")
    IN  IF Len(parts) # 2 THEN {}
        ELSE LET hh == IntOf(parts[1])
                 mm == IntOf(parts[2])
             IN  IF hh.ok /\ mm.ok /\ hh.val \in 0..23 /\ mm.val \in 0..59
                 THEN {<<hh.val, mm.val>>}
                 ELSE {}

\* C11: for every stored reminder_time text, parse_hhmm returns the hour
\* and minute of a valid HH:MM time of day and the default (18, 0) for
\* every other text (wrong number of parts, non-integer parts, hour
\* outside 0..23, minute outside 0..59), and render_today builds the
\* reminder time from the result without raising.
C11_ReminderTimeDefaults ==
    LET reminder == get_setting(arg.reminder_time, DefaultReminder)
    IN  /\ pc = "parse_hhmm" =>
               ret = (IF TimeOfDay(reminder) = {} THEN <<18, 0>>
                      ELSE CHOOSE t \in TimeOfDay(reminder) : TRUE)
        /\ pc = "render_today" => ret.ok

(***************************************************************************)
(* SpecStreakFair: current_streak as a running call. The interpreter keeps *)
(* executing the loop body while the function has not returned, so a step  *)
(* that is enabled is eventually taken.                                    *)
(***************************************************************************)
\* The habit records of the running call: every branch of is_due_on, a
\* custom schedule with one weekday and the never-due custom schedules
\* (empty and unusable text).
FairHabits ==
    {[schedule_type |-> "daily", custom_days |-> <<>>],
     [schedule_type |-> "weekdays", custom_days |-> <<>>],
     [schedule_type |-> "monthly", custom_days |-> <<>>],
     [schedule_type |-> "custom", custom_days |-> <<"5">>],
     [schedule_type |-> "custom", custom_days |-> <<>>],
     [schedule_type |-> "custom", custom_days |-> <<"x">>]}

\* days before today that carry check-ins: Window, Window - 3 for the
\* empty custom schedule (walked 61 days back whatever the list holds),
\* today alone for the custom schedules whose text is parsed at every step
FairDays(h) ==
    IF h.schedule_type # "custom" THEN Window
    ELSE IF h.custom_days = <<>> THEN Window - 3
    ELSE 1

StreakArgs ==
    UNION {{[habit |-> h, checkins |-> cs, today |-> t] :
                cs \in CheckinLists(t - FairDays(h) + 1, t)} :
           h \in FairHabits, t \in Todays}

\* a caller passes a habit, its check-ins and today
call_current_streak ==
    /\ pc = "idle"
    /\ arg' \in StreakArgs
    /\ pc' = "init"
    /\ UNCHANGED <<storeVars, pageVars, cur, streak, ret>>

NextStreakFair == call_current_streak \/ current_streak_enter \/ current_streak_loop

SpecStreakFair == Init /\ [][NextStreakFair]_vars /\ WF_vars(NextStreakFair)

\* where the walk has stopped: 61 days back with 0 for a schedule that is
\* never due, else on the first due day (walking back from today) that has
\* no done check-in
StopsWhereClaimed ==
    LET lookup == checkin_lookup(arg.checkins)
        DoneAt(d) == Get(lookup, isoformat(d), 0) = 1
    IN  IF NeverDue(arg.habit)
        THEN ret = 0 /\ streak = 0 /\ arg.today - cur = 61
        ELSE /\ is_due_on(arg.habit, cur)
             /\ ~DoneAt(cur)
             /\ \A d \in (cur + 1)..arg.today : is_due_on(arg.habit, d) => DoneAt(d)
             /\ ret = streak

\* C12: current_streak returns for every habit record, every list of
\* check-ins and every today; on return, a never-due schedule has been
\* walked until it was more than 60 days back, with result 0, and every
\* other schedule until the first due day without a done check-in.
C12_CurrentStreakTerminates ==
    /\ <>(pc = "done")
    /\ [](pc = "done" => StopsWhereClaimed)

\* the 60-day guard has ended the walk of a never-due schedule whose list
\* holds a done check-in for today
C12_Witness ==
    /\ pc = "done"
    /\ NeverDue(arg.habit)
    /\ arg.today - cur = 61
    /\ ret = 0
    /\ \E i \in 1..Len(arg.checkins) :
           arg.checkins[i].day = isoformat(arg.today) /\ arg.checkins[i].done = 1

\* the confirmation is showing: the flag is set and the edit target is a
\* habit of the table
Armed == confirm_delete /\ EditedHabit # {}

\* C13: on the Habits page the confirmation shows for a habit only from a
\* press of Delete on that habit, and from then on only while the edit
\* target stays that habit (Cancel and a successful Save end it); Delete
\* permanently deletes only the habit the confirmation was showing for.
C13_ConfirmFollowsEditTarget ==
    [][/\ Armed' =>
              \/ event'.button = "Delete" /\ event'.target = edit_id'
              \/ Armed /\ edit_id' = edit_id
       /\ event'.button = "Delete permanently" =>
              Armed /\ last'.op = "delete_habit" /\ last'.habit_id = edit_id]_vars

(***************************************************************************)
(* SpecExisting: the storage layer under any sequence of create_habit,     *)
(* delete_habit and upsert_checkin calls whose check-ins are recorded for  *)
(* a habit that exists at the time of the call.                            *)
(***************************************************************************)
ApiUpsertExisting ==
    /\ \E h \in habits, day \in CheckinDays, dn \in BOOLEAN,
          nt \in NoteInputs, t \in StampInputs :
           upsert_checkin(h.id, day, dn, nt, t)
    /\ UNCHANGED <<pageVars, callVars>>

NextExisting == ApiCreateHabit \/ ApiDeleteHabit \/ ApiUpsertExisting

SpecExisting == Init /\ [][NextExisting]_vars

\* C14: when check-ins are only ever recorded for habits that exist, the
\* habit a create_habit call has just inserted has no check-ins: its id
\* was never held by an earlier habit, so no row of a deleted habit is
\* listed for it.
C14_NewHabitHasNoCheckins ==
    (last.op = "create_habit" /\ last.ok) =>
        \A h \in habits :
            h.name = Strip(last.name) =>
                /\ list_checkins_for_habit(h.id) = <<>>
                /\ h.id = habit_seq
                /\ \A c \in checkins : c.habit_id < h.id

\* a habit was created while the table still held a check-in of a habit
\* deleted before
C14_Witness ==
    /\ last.op = "create_habit" /\ last.ok
    /\ \E h \in habits : h.name = Strip(last.name) /\ h.id = habit_seq
    /\ \E c \in checkins : \A h \in habits : h.id # c.habit_id

=============================================================================
